---- MODULE Spec2Model ----
(***************************************************************************)
(* Price-update ingestion of the used-vehicle backend.                     *)
(*                                                                         *)
(* PriceProcessorService (services/priceProcessor) owns two guard fields   *)
(* and a queue; startProcessing() is an async function called by the       *)
(* once-per-minute cron callback (index.ts), by the administrative trigger *)
(* handler (HealthController.triggerPriceProcessing) and directly by a     *)
(* caller holding the service.  Every caller is a task of one event loop;  *)
(* a task runs uninterrupted between two await points, so every action     *)
(* below is the code between two suspension points.                        *)
(***************************************************************************)
EXTENDS Integers, Sequences, FiniteSets, TLC

\* ---------------------------------------------------------------- bounds
NumCallers == 2
\* rows read in one run, over both files
MaxRows == 2
MaxObjects == 2
MaxTime == 2

Callers == 1..NumCallers

\* ---------------------------------------------------------------- feed rows
\* a CSV row as csv-parser hands it over: the two columns the code reads
\* (vehicle_id, and new_price as a sequence of characters): a number, a
\* negative number and a field that is no number
Rows == {[vehicle_id |-> "v1", new_price |-> <<"5">>],
         [vehicle_id |-> "v2", new_price |-> <<"-", "5">>],
         [vehicle_id |-> "v1", new_price |-> <<"x">>]}

Digits == {"5"}
DigitValue(c) == IF c = "5" THEN 5 ELSE 0

\* the result of parseFloat: a number or NaN
NaN == [nan |-> TRUE, val |-> 0]
Num(n) == [nan |-> FALSE, val |-> n]

\* value of the longest prefix of digits of s, starting at position i
RECURSIVE DigitsValue(_, _, _)
DigitsValue(s, i, acc) ==
  IF i > Len(s) \/ s[i] \notin Digits THEN acc
  ELSE DigitsValue(s, i + 1, acc * 10 + DigitValue(s[i]))

\* parseFloat(field): optional sign, then the longest numeric prefix; NaN
\* when no digit follows
ParseFloat(s) ==
  LET neg == Len(s) >= 1 /\ s[1] = "-"
      first == IF neg THEN 2 ELSE 1
  IN IF first > Len(s) \/ s[first] \notin Digits THEN NaN
     ELSE Num((IF neg THEN -1 ELSE 1) * DigitsValue(s, first, 0))

\* the 'data' handler's record (the timestamp field, new Date(), is left out)
ToUpdate(row) == [vehicleId |-> row.vehicle_id, newPrice |-> ParseFloat(row.new_price)]

\* ---------------------------------------------------------------- S3 listing
\* object keys under the prefix, in the lexicographic order S3 lists them
KeySeq == << [name |-> "price-updates/a", ext |-> ".csv"],
             [name |-> "price-updates/b", ext |-> ".csv"],
             [name |-> "price-updates/c", ext |-> ".txt"] >>
NoKey == [name |-> "", ext |-> ""]

\* LastModified is optional: <<>> or <<t>>
Stamps == {<<>>} \cup {<<t>> : t \in 1..MaxTime}

\* listResult.Contents: at most MaxObjects objects, keys in listing order
Listings ==
  LET Idx == 1..Len(KeySeq)
      Picks == {p \in UNION {[1..n -> Idx] : n \in 0..MaxObjects} :
                  \A i \in DOMAIN p : \A j \in DOMAIN p : i < j => p[i] < p[j]}
  IN UNION {{[i \in DOMAIN p |-> [Key |-> KeySeq[p[i]], LastModified |-> st[i]]] :
               st \in [DOMAIN p -> Stamps]} : p \in Picks}

\* a filter that lets every key through
EndsWithCsvAny(obj) == TRUE

\* obj.Key?.endsWith('.csv')
EndsWithCsv(obj) == obj.Key.ext = ".csv"

\* LastModified?.getTime() || 0
GetTime(obj) == IF obj.LastModified = <<>> THEN 0 ELSE obj.LastModified[1]

\* an insertion that puts an object before the objects of equal time
RECURSIVE InsertDescUnstable(_, _)
InsertDescUnstable(sorted, obj) ==
  IF sorted = <<>> THEN <<obj>>
  ELSE IF GetTime(obj) >= GetTime(Head(sorted)) THEN <<obj>> \o sorted
  ELSE <<Head(sorted)>> \o InsertDescUnstable(Tail(sorted), obj)

\* Array.prototype.sort with (a, b) => time(b) - time(a): stable, descending
RECURSIVE InsertDesc(_, _)
InsertDesc(sorted, obj) ==
  IF sorted = <<>> THEN <<obj>>
  ELSE IF GetTime(obj) > GetTime(Head(sorted)) THEN <<obj>> \o sorted
  ELSE <<Head(sorted)>> \o InsertDesc(Tail(sorted), obj)

RECURSIVE SortDesc(_)
SortDesc(objs) ==
  IF objs = <<>> THEN <<>>
  ELSE InsertDesc(SortDesc(SubSeq(objs, 1, Len(objs) - 1)), objs[Len(objs)])

\* latestFile?.Key, NoKey when the filtered list is empty
LatestKey(contents) ==
  LET sorted == SortDesc(SelectSeq(contents, EndsWithCsv))
  IN IF sorted = <<>> THEN NoKey ELSE sorted[1].Key


\* ---------------------------------------------------------------- state
VARIABLES
  processingLock,   \* PriceProcessorService.processingLock
  isProcessing,     \* PriceProcessorService.isProcessing
  processingQueue,  \* PriceProcessorService.processingQueue
  bucketName,       \* whether process.env.AWS_S3_BUCKET is set
  crashed,          \* the process has exited through the uncaughtException handler
  call,             \* per caller: the task that calls into the service
  run,              \* the locals and the observable effects of the run that
                    \* started last (a run starts with a fresh record)
  users,            \* the rows of the users table, the id of a row is its position
  redis,            \* the keys held by Redis
  redisQueue,       \* the commands sent to Redis and not yet executed, in order
  req,              \* per caller: the HTTP request it has sent to the API
  sent              \* the number of requests sent to the API

authVars == <<users, redis, redisQueue, req, sent>>

vars == <<processingLock, isProcessing, processingQueue, bucketName, crashed, call, run,
          users, redis, redisQueue, req, sent>>

Sources == {"s3", "local"}

\* a caller that is not executing anything
IdleCall ==
  [kind |-> "none", pc |-> "idle", settled |-> "none", startedRun |-> FALSE,
   response |-> "none", reported |-> <<>>]

\* the record of a run that has not done anything yet: the locals of the run
\* (src, latestKey, updates; listing, which is kept until the first event of
\* the selected object's stream), what it read (rows), what it handed to
\* processUpdatesConcurrently per source (handed), how each source's step
\* ended (outcome), the updatePrice calls made (applied), what it logged and
\* the state of the promise startProcessing returned for it
FreshRun ==
  [src |-> "none", listing |-> <<>>, latestKey |-> NoKey,
   rows |-> [s3 |-> <<>>, local |-> <<>>], updates |-> <<>>,
   handed |-> [s3 |-> <<>>, local |-> <<>>],
   outcome |-> [s3 |-> "none", local |-> "none"],
   applied |-> <<>>, log |-> {}, promise |-> "none"]

\* the suspension points of a run (between the guard being set and the finally)
RunPcs == {"list", "stream", "apply", "ret"}
Running(t) == call[t].pc \in RunPcs
Runners == {t \in Callers : Running(t)}

\* ---------------------------------------------------------------- accounts
\* requests the clients send to the API in one behaviour
MaxRequests == 2

\* the users table at the start: an administrator, a customer and a
\* deactivated administrator
InitialUsers ==
  << [email |-> "admin@x", role |-> "admin", isActive |-> TRUE],
     [email |-> "customer@x", role |-> "customer", isActive |-> TRUE],
     [email |-> "former@x", role |-> "admin", isActive |-> FALSE] >>

\* the ids the users table can hold
UserIds == 1 .. (Len(InitialUsers) + MaxRequests)

\* the emails a register request may carry: one taken, one new
Emails == {"admin@x", "new@x"}

\* no Authorization header
NoToken == [userId |-> 0, role |-> "none", valid |-> FALSE]

\* the access tokens a request may carry: of the administrator, of the
\* customer, of the deactivated administrator, of a user whose row is gone,
\* and one that jwt.verify refuses (bad signature or expired)
AccessTokens ==
  { [userId |-> 1, role |-> "admin", valid |-> TRUE],
    [userId |-> 2, role |-> "customer", valid |-> TRUE],
    [userId |-> 3, role |-> "admin", valid |-> TRUE],
    [userId |-> Len(InitialUsers) + MaxRequests + 1, role |-> "admin", valid |-> TRUE],
    [userId |-> 1, role |-> "admin", valid |-> FALSE] }

\* no refresh token
NoRefresh == [userId |-> 0, serial |-> 0]

\* Redis without keys: the refresh token stored per user, the blacklist
EmptyRedis ==
  [refresh_token |-> [u \in UserIds |-> NoRefresh], blacklist |-> {}]

\* the refresh token the customer got at the last login
LoggedIn == [userId |-> 2, serial |-> 0]

\* Redis at the start: the customer is logged in, login has stored the
\* refresh token
InitialRedis == [EmptyRedis EXCEPT !.refresh_token[LoggedIn.userId] = LoggedIn]

\* a client that has no request in flight and no response
IdleReq ==
  [pc |-> "idle", endpoint |-> "none", token |-> NoToken, email |-> "none",
   refresh |-> NoRefresh, response |-> "none", issued |-> NoRefresh,
   revoked |-> FALSE]

Init ==
  /\ processingLock = FALSE
  /\ isProcessing = FALSE
  /\ processingQueue = <<>>
  /\ bucketName \in BOOLEAN
  /\ crashed = FALSE
  /\ call = [t \in Callers |-> IdleCall]
  /\ run = FreshRun
  /\ users = InitialUsers
  /\ redis = InitialRedis
  /\ redisQueue = <<>>
  /\ req = [t \in Callers |-> IdleReq]
  /\ sent = 0

\* ---------------------------------------------------------------- the service
\* a status that derives isProcessing from the queue
getProcessingStatusFromQueue ==
  [isProcessing |-> Len(processingQueue) > 0, queueLength |-> Len(processingQueue)]

\* getProcessingStatus()
getProcessingStatus == [isProcessing |-> isProcessing, queueLength |-> Len(processingQueue)]

\* a check that never sees a run
isCurrentlyProcessingStale == FALSE

\* isCurrentlyProcessing()
isCurrentlyProcessing == isProcessing

\* a guard that never refuses
AlreadyRunningNever == FALSE

\* the guard of startProcessing: if (this.processingLock)
AlreadyRunning == processingLock

\* a start that leaves the guard fields unset
AcquiredFlagUnset == FALSE

\* the value the two guard fields get at the start of a run
AcquiredFlag == TRUE

\* an early return placed inside the try block: the finally clears the flags
FlagAfterNoopCleared(flag) == FALSE

\* the early return sits before the try block: the finally does not run, the
\* guard fields keep their value
FlagAfterNoop(flag) == flag

\* the flags cleared at the end of the try block instead of in a finally
FlagAfterRunOnSuccessOnly(failed) == failed

\* the finally block, reached whether or not the try block failed
FlagAfterRun(failed) == FALSE

\* processFromS3 up to its first await: no bucket, warn and return (TRUE);
\* else the listing request is in flight (FALSE)
S3Skipped == ~bucketName

\* startProcessing() up to its first suspension, called by caller t whose
\* record is c at the call
StartProcessing(t, c) ==
  IF AlreadyRunning
  THEN /\ call' = [call EXCEPT ![t] = [c EXCEPT !.pc = "done", !.settled = "resolved"]]
       /\ processingLock' = FlagAfterNoop(processingLock)
       /\ isProcessing' = FlagAfterNoop(isProcessing)
       /\ UNCHANGED run
  ELSE /\ processingLock' = AcquiredFlag
       /\ isProcessing' = AcquiredFlag
       /\ call' = [call EXCEPT ![t] =
                     [c EXCEPT !.settled = "pending", !.startedRun = TRUE,
                               !.pc = IF S3Skipped THEN "ret" ELSE "list"]]
       /\ run' = [FreshRun EXCEPT
                    !.src = "s3", !.promise = "pending",
                    !.outcome = [@ EXCEPT !.s3 = IF S3Skipped THEN "skipped" ELSE "none"],
                    !.log = {"Starting price processing from S3 CSV"} \cup
                            (IF S3Skipped
                             THEN {"S3 bucket not configured, skipping S3 processing"}
                             ELSE {})]

\* a caller invokes startProcessing() directly
DirectCall(t) ==
  /\ ~crashed
  /\ call[t].pc = "idle"
  /\ StartProcessing(t, [call[t] EXCEPT !.kind = "direct"])
  /\ UNCHANGED <<processingQueue, bucketName, crashed, authVars>>

\* a cron callback that starts without looking at the service
CronTickNoCheck(t) ==
  /\ ~crashed
  /\ call[t].pc = "idle"
  /\ StartProcessing(t, [call[t] EXCEPT !.kind = "cron"])
  /\ UNCHANGED <<processingQueue, bucketName, crashed, authVars>>

\* the cron callback: check, then start and await, or skip the tick
CronTick(t) ==
  /\ ~crashed
  /\ call[t].pc = "idle"
  /\ IF ~isCurrentlyProcessing
     THEN StartProcessing(t, [call[t] EXCEPT !.kind = "cron"])
     ELSE /\ call' = [call EXCEPT ![t] = [@ EXCEPT !.kind = "cron", !.pc = "done"]]
          /\ UNCHANGED <<processingLock, isProcessing, run>>
  /\ UNCHANGED <<processingQueue, bucketName, crashed, authVars>>

\* POST /price-processor/trigger arrives: the handler awaits the dynamic import
TriggerRequest(t) ==
  /\ ~crashed
  /\ call[t].pc = "idle"
  /\ call' = [call EXCEPT ![t] = [@ EXCEPT !.kind = "trigger", !.pc = "import"]]
  /\ UNCHANGED <<processingLock, isProcessing, processingQueue, bucketName, crashed, run, authVars>>

\* a trigger handler without the conflict branch
TriggerHandleNoCheck(t) ==
  /\ ~crashed
  /\ call[t].pc = "import"
  /\ call[t].kind = "trigger"
  /\ StartProcessing(t, [call[t] EXCEPT !.response = "200"])
  /\ UNCHANGED <<processingQueue, bucketName, crashed, authVars>>

\* an acknowledgement that is not sent by the step that starts the run
TriggerAckDeferred == "none"

\* the response sent right after startProcessing() was called, not awaited
TriggerAck == "200"

\* the handler after the import: 409, or start in the background and acknowledge
TriggerHandle(t) ==
  /\ ~crashed
  /\ call[t].pc = "import"
  /\ call[t].kind = "trigger"
  /\ IF isCurrentlyProcessing
     THEN /\ call' = [call EXCEPT ![t] = [@ EXCEPT !.pc = "done", !.response = "409"]]
          /\ UNCHANGED <<processingLock, isProcessing, run>>
     ELSE StartProcessing(t, [call[t] EXCEPT !.response = TriggerAck])
  /\ UNCHANGED <<processingQueue, bucketName, crashed, authVars>>

\* GET /price-processor/status arrives: the handler awaits the dynamic import
StatusRequest(t) ==
  /\ ~crashed
  /\ call[t].pc = "idle"
  /\ call' = [call EXCEPT ![t] = [@ EXCEPT !.kind = "status", !.pc = "import"]]
  /\ UNCHANGED <<processingLock, isProcessing, processingQueue, bucketName, crashed, run, authVars>>

\* a status handler that resets the flag it reads
StatusHandleResets(t) ==
  /\ ~crashed
  /\ call[t].pc = "import"
  /\ call[t].kind = "status"
  /\ call' = [call EXCEPT ![t] = [@ EXCEPT !.pc = "done", !.response = "200",
                                            !.reported = <<getProcessingStatus>>]]
  /\ isProcessing' = FALSE
  /\ UNCHANGED <<processingLock, processingQueue, bucketName, crashed, run, authVars>>

\* the status handler after the import: res.json of getProcessingStatus()
StatusHandle(t) ==
  /\ ~crashed
  /\ call[t].pc = "import"
  /\ call[t].kind = "status"
  /\ call' = [call EXCEPT ![t] = [@ EXCEPT !.pc = "done", !.response = "200",
                                            !.reported = <<getProcessingStatus>>]]
  /\ UNCHANGED <<processingLock, isProcessing, processingQueue, bucketName, crashed, run, authVars>>

\* ---------------------------------------------------------------- a run
\* a listing step without the check of the filtered list
ListOutcomeNoExtensionCheck(contents) ==
  IF Len(contents) = 0 THEN "nodata" ELSE "stream"

\* what the listing decides: nothing to do, or stream the latest .csv object
ListOutcome(contents) ==
  IF Len(contents) = 0 THEN "nodata"
  ELSE IF LatestKey(contents) = NoKey THEN "nodata"
  ELSE "stream"

\* the catch block of processFromS3 / processFromLocal: log, then rethrow
SourceFailed(t) ==
  /\ call' = [call EXCEPT ![t] = [@ EXCEPT !.pc = "ret"]]
  /\ run' = [run EXCEPT !.outcome = [@ EXCEPT ![run.src] = "error"],
                        !.listing = <<>>,
                        !.log = @ \cup {IF run.src = "s3" THEN "Failed to process S3 CSV"
                                        ELSE "Failed to process local CSV"}]

\* listObjectsV2(...).promise() resolves with Contents = contents
S3ListResolve(t) ==
  /\ ~crashed
  /\ call[t].pc = "list"
  /\ \E contents \in Listings :
       IF ListOutcome(contents) = "nodata"
       THEN /\ call' = [call EXCEPT ![t] = [@ EXCEPT !.pc = "ret"]]
            /\ run' = [run EXCEPT !.listing = <<contents>>,
                                  !.outcome = [@ EXCEPT !.s3 = "nodata"],
                                  !.log = @ \cup {"No CSV files found in S3 bucket"}]
       ELSE /\ call' = [call EXCEPT ![t] = [@ EXCEPT !.pc = "stream"]]
            /\ run' = [run EXCEPT !.listing = <<contents>>,
                                  !.latestKey = LatestKey(contents),
                                  !.updates = <<>>,
                                  !.log = @ \cup {"Processing CSV file"}]
  /\ UNCHANGED <<processingLock, isProcessing, processingQueue, bucketName, crashed, authVars>>

\* listObjectsV2(...).promise() rejects (bucket unreachable, access denied)
S3ListReject(t) ==
  /\ ~crashed
  /\ call[t].pc = "list"
  /\ SourceFailed(t)
  /\ UNCHANGED <<processingLock, isProcessing, processingQueue, bucketName, crashed, authVars>>

\* a 'data' handler that puts the new record in front of the earlier ones
StreamDataPrepends(t) ==
  /\ ~crashed
  /\ call[t].pc = "stream"
  /\ Len(run.rows.s3) + Len(run.rows.local) < MaxRows
  /\ \E row \in Rows :
       run' = [run EXCEPT !.listing = <<>>,
                          !.rows = [@ EXCEPT ![run.src] = Append(@, row)],
                          !.updates = <<ToUpdate(row)>> \o @]
  /\ UNCHANGED <<processingLock, isProcessing, processingQueue, bucketName, crashed, call, authVars>>

\* a 'data' handler that also puts the record on the processing queue
StreamDataQueues(t) ==
  /\ ~crashed
  /\ call[t].pc = "stream"
  /\ Len(run.rows.s3) + Len(run.rows.local) < MaxRows
  /\ \E row \in Rows :
       /\ run' = [run EXCEPT !.listing = <<>>,
                             !.rows = [@ EXCEPT ![run.src] = Append(@, row)],
                             !.updates = Append(@, ToUpdate(row))]
       /\ processingQueue' = Append(processingQueue, ToUpdate(row))
  /\ UNCHANGED <<processingLock, isProcessing, bucketName, crashed, call, authVars>>

\* the 'data' handler of processCSVStream: one row of the file
StreamData(t) ==
  /\ ~crashed
  /\ call[t].pc = "stream"
  /\ Len(run.rows.s3) + Len(run.rows.local) < MaxRows
  /\ \E row \in Rows :
       run' = [run EXCEPT !.listing = <<>>,
                          !.rows = [@ EXCEPT ![run.src] = Append(@, row)],
                          !.updates = Append(@, ToUpdate(row))]
  /\ UNCHANGED <<processingLock, isProcessing, processingQueue, bucketName, crashed, call, authVars>>

\* the price updates processUpdatesConcurrently(updates) hands to
\* VehicleRepository.updatePrice: its body only logs
UpdatePriceCalls(updates) == <<>>

\* what processUpdatesConcurrently(updates) logs
ApplyLog(updates) ==
  IF Len(updates) = 0 THEN "No price updates to process"
  ELSE "Price updates processed successfully"

\* the 'end' handler up to its await: processUpdatesConcurrently(updates)
StreamEnd(t) ==
  /\ ~crashed
  /\ call[t].pc = "stream"
  /\ call' = [call EXCEPT ![t] = [@ EXCEPT !.pc = "apply"]]
  /\ run' = [run EXCEPT !.listing = <<>>,
                        !.handed = [@ EXCEPT ![run.src] = run.updates],
                        !.applied = @ \o UpdatePriceCalls(run.updates),
                        !.log = @ \cup {ApplyLog(run.updates)}]
  /\ UNCHANGED <<processingLock, isProcessing, processingQueue, bucketName, crashed, authVars>>

\* the 'end' handler after its await: resolve(); processFromS3/-Local resumes,
\* logs its success and returns
ApplyResume(t) ==
  /\ ~crashed
  /\ call[t].pc = "apply"
  /\ call' = [call EXCEPT ![t] = [@ EXCEPT !.pc = "ret"]]
  /\ run' = [run EXCEPT !.outcome = [@ EXCEPT ![run.src] = "ok"],
                        !.log = @ \cup {IF run.src = "s3" THEN "Successfully processed S3 file"
                                        ELSE "Successfully processed local CSV file"}]
  /\ UNCHANGED <<processingLock, isProcessing, processingQueue, bucketName, crashed, authVars>>

\* the 'error' handler on the csv parser: reject(error)
StreamParserError(t) ==
  /\ ~crashed
  /\ call[t].pc = "stream"
  /\ SourceFailed(t)
  /\ UNCHANGED <<processingLock, isProcessing, processingQueue, bucketName, crashed, authVars>>

\* the source stream emits 'error': no listener is attached to it, the error is
\* an uncaught exception and the handler of app.ts exits the process
StreamSourceError(t) ==
  /\ ~crashed
  /\ call[t].pc = "stream"
  /\ crashed' = TRUE
  /\ UNCHANGED <<processingLock, isProcessing, processingQueue, bucketName, call, run, authVars>>

\* whether startProcessing goes on to processFromLocal after processFromS3:
\* a rejection of the awaited promise leaves the try block
RunsFallback(s3outcome) == s3outcome # "error"

\* a finally that releases the lock only after a run that did not fail
LockAfterRunOnSuccessOnly(failed) == failed

\* the finally block: this.processingLock = false
LockAfterRun(failed) == FALSE

\* a catch block that logs and rethrows
SettledAsRethrown(failed) == IF failed THEN "rejected" ELSE "resolved"

\* how the promise of startProcessing settles: the catch block logs the error
\* and does not rethrow, the async function returns normally
SettledAs(failed) == "resolved"

\* the end of startProcessing: catch (when failed), then finally; the promise
\* resolves, the caller awaiting it (if any) is through, and the locals of the
\* run (the listing, the selected key, the updates array) are gone
Settle(t, failed) ==
  /\ call' = [call EXCEPT ![t] = IdleCall]
  /\ run' = [run EXCEPT !.src = "none", !.listing = <<>>, !.latestKey = NoKey,
                        !.updates = <<>>, !.promise = SettledAs(failed),
                        !.log = @ \cup {IF failed THEN "error.message"
                                        ELSE "Price processing completed successfully"}]
  /\ processingLock' = LockAfterRun(failed)
  /\ isProcessing' = FlagAfterRun(failed)

\* startProcessing resumes after await this.processFromS3()
ResumeAfterS3(t) ==
  /\ ~crashed
  /\ call[t].pc = "ret"
  /\ run.src = "s3"
  /\ IF RunsFallback(run.outcome.s3)
     THEN /\ \E exists \in BOOLEAN :
               IF ~exists
               THEN /\ run' = [run EXCEPT !.src = "local", !.listing = <<>>,
                                          !.latestKey = NoKey,
                                          !.outcome = [@ EXCEPT !.local = "nodata"],
                                          !.log = @ \cup {"No local CSV file found"}]
                    /\ UNCHANGED call
               ELSE /\ run' = [run EXCEPT !.src = "local", !.listing = <<>>,
                                          !.latestKey = NoKey, !.updates = <<>>,
                                          !.log = @ \cup {"Processing local CSV file"}]
                    /\ call' = [call EXCEPT ![t] = [@ EXCEPT !.pc = "stream"]]
          /\ UNCHANGED <<processingLock, isProcessing>>
     ELSE Settle(t, TRUE)
  /\ UNCHANGED <<processingQueue, bucketName, crashed, authVars>>

\* startProcessing resumes after await this.processFromLocal()
ResumeAfterLocal(t) ==
  /\ ~crashed
  /\ call[t].pc = "ret"
  /\ run.src = "local"
  /\ Settle(t, run.outcome.local = "error")
  /\ UNCHANGED <<processingQueue, bucketName, crashed, authVars>>

\* a refused call that is taken up again once the guard is free
FinishRetries(t) ==
  /\ ~crashed
  /\ call[t].pc = "done"
  /\ IF call[t].settled = "resolved" /\ ~processingLock
     THEN StartProcessing(t, call[t])
     ELSE /\ call' = [call EXCEPT ![t] = IdleCall]
          /\ UNCHANGED <<processingLock, isProcessing, run>>
  /\ UNCHANGED <<processingQueue, bucketName, crashed, authVars>>

\* a caller that did not start a run is through (no-op call resolved, 409
\* sent, tick skipped)
Finish(t) ==
  /\ ~crashed
  /\ call[t].pc = "done"
  /\ call' = [call EXCEPT ![t] = IdleCall]
  /\ UNCHANGED <<processingLock, isProcessing, processingQueue, bucketName, crashed, run, authVars>>

Next ==
  \E t \in Callers :
    \/ DirectCall(t)
    \/ CronTick(t)
    \/ TriggerRequest(t)
    \/ TriggerHandle(t)
    \/ StatusRequest(t)
    \/ StatusHandle(t)
    \/ S3ListResolve(t)
    \/ S3ListReject(t)
    \/ StreamData(t)
    \/ StreamEnd(t)
    \/ ApplyResume(t)
    \/ StreamParserError(t)
    \/ StreamSourceError(t)
    \/ ResumeAfterS3(t)
    \/ ResumeAfterLocal(t)
    \/ Finish(t)

Spec == Init /\ [][Next]_vars

\* a step that completes or fails the I/O the run of caller t is waiting for
RunStep(t) ==
  \/ S3ListResolve(t) \/ S3ListReject(t)
  \/ StreamEnd(t) \/ StreamParserError(t) \/ StreamSourceError(t)
  \/ ApplyResume(t)
  \/ ResumeAfterS3(t) \/ ResumeAfterLocal(t)

\* every fetch, parse and apply step eventually completes or fails, and the
\* event loop resumes every continuation that is ready
LiveSpec == Spec /\ \A t \in Callers : WF_vars(RunStep(t))

TypeOK ==
  /\ processingLock \in BOOLEAN
  /\ isProcessing \in BOOLEAN
  /\ processingQueue = <<>>
  /\ \A t \in Callers : call[t].pc \in {"idle", "import", "done"} \cup RunPcs

\* ---------------------------------------------------------------- the API
\* the fields of the service a request outside the trigger handler never touches
serviceVars == <<processingLock, isProcessing, processingQueue, bucketName, crashed, run>>

\* verifyToken / verifyAccessToken: the payload in a one-element sequence,
\* <<>> for null
verifyAccessToken(token) ==
  IF token.valid THEN <<[userId |-> token.userId, role |-> token.role]>> ELSE <<>>

\* isTokenRevoked(token): the blacklist key of the token exists
isTokenRevoked(token) == token \in redis.blacklist

\* UserRepository.findById: the row in a one-element sequence, <<>> for null
findById(id) == IF id \in DOMAIN users THEN <<users[id]>> ELSE <<>>

\* UserRepository.findByEmail
findByEmail(email) == SelectSeq(users, LAMBDA u : u.email = email)

\* the UNIQUE constraint on users.email refuses the INSERT
UniqueViolation(email) == \E i \in DOMAIN users : users[i].email = email

\* a role check that lets every role through
hasRoleAny(userRole, requiredRoles) == TRUE

\* AuthService.hasRole
hasRole(userRole, requiredRoles) == userRole \in requiredRoles

\* what a Redis command does to the keys
Exec(cmd, store) ==
  IF cmd.prefix = "refresh_token"
  THEN CASE cmd.op = "set" -> [store EXCEPT !.refresh_token[cmd.id.userId] = cmd.value]
         [] cmd.op = "del" -> [store EXCEPT !.refresh_token[cmd.id.userId] = NoRefresh]
         [] OTHER -> store
  ELSE CASE cmd.op = "set" -> [store EXCEPT !.blacklist = @ \cup {cmd.id}]
         [] OTHER -> store

\* the commands of AuthService; waiter is the request that awaits the reply,
\* 0 when nothing awaits it
StoreRefreshToken(token) ==
  [op |-> "set", prefix |-> "refresh_token", id |-> [userId |-> token.userId],
   value |-> token, waiter |-> 0]
RevokeRefreshToken(userId, c) ==
  [op |-> "del", prefix |-> "refresh_token", id |-> [userId |-> userId],
   value |-> NoRefresh, waiter |-> c]
GetStoredRefreshToken(userId, c) ==
  [op |-> "get", prefix |-> "refresh_token", id |-> [userId |-> userId],
   value |-> NoRefresh, waiter |-> c]
RevokeAccessToken(token, c) ==
  [op |-> "set", prefix |-> "blacklist", id |-> token, value |-> NoRefresh, waiter |-> c]

\* client c may send a request: it has none in flight and is not the task of
\* a trigger handler or of the run a trigger handler started
CanSend(c) ==
  /\ ~crashed
  /\ sent < MaxRequests
  /\ req[c].pc \in {"idle", "done", "handler"}
  /\ call[c].pc = "idle"

\* the reply to the command client c awaits has arrived
Replied(c, pc) ==
  /\ ~crashed
  /\ req[c].pc = pc
  /\ redisQueue # <<>>
  /\ Head(redisQueue).waiter = c

\* the request of client c is answered
Answer(c, status) ==
  [req EXCEPT ![c] = [@ EXCEPT !.pc = "done", !.response = status]]

\* the endpoints behind authenticateToken that are modelled
Protected == {"trigger", "logout"}

\* authenticateToken up to the user lookup: a request to a protected endpoint
\* arrives; no token, or a token verifyToken refuses: 401 (verifyToken does no
\* I/O, its await resumes before any other task runs); else findById is sent
AuthRequest(c) ==
  /\ CanSend(c)
  /\ \E endpoint \in Protected : \E header \in AccessTokens \cup {NoToken} :
       LET refused == header = NoToken \/ verifyAccessToken(header) = <<>>
       IN req' = [req EXCEPT ![c] =
                    [IdleReq EXCEPT !.endpoint = endpoint, !.token = header,
                                    !.revoked = isTokenRevoked(header),
                                    !.pc = IF refused THEN "done" ELSE "findById",
                                    !.response = IF refused THEN "401" ELSE "none"]]
  /\ sent' = sent + 1
  /\ UNCHANGED <<serviceVars, call, users, redis, redisQueue>>

\* the lookup of the user fails (database unreachable): the catch block of
\* authenticateToken answers 500
AuthLookupFails(c) ==
  /\ ~crashed
  /\ req[c].pc = "findById"
  /\ req' = Answer(c, "500")
  /\ UNCHANGED <<serviceVars, call, users, redis, redisQueue, sent>>

\* the lookup of the user returns: 401 for a missing or inactive user; else
\* next(): requireRole on the trigger route (403), then the handler up to its
\* first await: the import of the trigger handler, the blacklist SET of logout
AuthLookup(c) ==
  /\ ~crashed
  /\ req[c].pc = "findById"
  /\ LET user == findById(req[c].token.userId)
     IN IF user = <<>> \/ ~user[1].isActive
        THEN /\ req' = Answer(c, "401")
             /\ UNCHANGED <<call, redisQueue>>
        ELSE IF req[c].endpoint = "trigger"
        THEN IF ~hasRole(req[c].token.role, {"admin"})
             THEN /\ req' = Answer(c, "403")
                  /\ UNCHANGED <<call, redisQueue>>
             ELSE /\ req' = [req EXCEPT ![c] = [@ EXCEPT !.pc = "handler"]]
                  /\ call' = [call EXCEPT ![c] = [@ EXCEPT !.kind = "trigger", !.pc = "import"]]
                  /\ UNCHANGED redisQueue
        ELSE /\ req' = [req EXCEPT ![c] = [@ EXCEPT !.pc = "revokeAccess"]]
             /\ redisQueue' = Append(redisQueue, RevokeAccessToken(req[c].token, c))
             /\ UNCHANGED call
  /\ UNCHANGED <<serviceVars, users, redis, sent>>

\* logout after await revokeAccessToken(token): revokeRefreshToken(userId)
LogoutAccessRevoked(c) ==
  /\ Replied(c, "revokeAccess")
  /\ redis' = Exec(Head(redisQueue), redis)
  /\ redisQueue' = Append(Tail(redisQueue), RevokeRefreshToken(req[c].token.userId, c))
  /\ req' = [req EXCEPT ![c] = [@ EXCEPT !.pc = "revokeRefresh"]]
  /\ UNCHANGED <<serviceVars, call, users, sent>>

\* logout after await revokeRefreshToken(userId): res.json
LogoutRefreshRevoked(c) ==
  /\ Replied(c, "revokeRefresh")
  /\ redis' = Exec(Head(redisQueue), redis)
  /\ redisQueue' = Tail(redisQueue)
  /\ req' = Answer(c, "200")
  /\ UNCHANGED <<serviceVars, call, users, sent>>

\* POST /register arrives: findByEmail is sent (the database serves the
\* queries of register)
RegisterRequest(c) ==
  /\ CanSend(c)
  /\ \E email \in Emails :
       req' = [req EXCEPT ![c] =
                 [IdleReq EXCEPT !.endpoint = "register", !.email = email,
                                 !.pc = "findByEmail"]]
  /\ sent' = sent + 1
  /\ UNCHANGED <<serviceVars, call, users, redis, redisQueue>>

\* findByEmail returns: 409 when a row has the email; else create() is
\* called: the password is hashed and the INSERT is sent
RegisterLookup(c) ==
  /\ ~crashed
  /\ req[c].pc = "findByEmail"
  /\ req' = IF findByEmail(req[c].email) # <<>>
            THEN Answer(c, "409")
            ELSE [req EXCEPT ![c] = [@ EXCEPT !.pc = "insert"]]
  /\ UNCHANGED <<serviceVars, call, users, redis, redisQueue, sent>>

\* the INSERT is executed: refused by the UNIQUE constraint, create() rethrows
\* and the catch block of register answers 500; else the row exists,
\* generateTokens signs the tokens and sends the SET of the refresh token
\* without awaiting it, and the response is 201 with the tokens
RegisterInsert(c) ==
  /\ ~crashed
  /\ req[c].pc = "insert"
  /\ IF UniqueViolation(req[c].email)
     THEN /\ req' = Answer(c, "500")
          /\ UNCHANGED <<users, redisQueue>>
     ELSE LET token == [userId |-> Len(users) + 1, serial |-> 0]
          IN /\ users' = Append(users, [email |-> req[c].email, role |-> "customer",
                                        isActive |-> TRUE])
             /\ redisQueue' = Append(redisQueue, StoreRefreshToken(token))
             /\ req' = [req EXCEPT ![c] = [@ EXCEPT !.pc = "done", !.response = "201",
                                                    !.issued = token]]
  /\ UNCHANGED <<serviceVars, call, redis, sent>>

\* the refresh tokens the API has handed out and a client still holds
HandedOut == ({LoggedIn} \cup {req[d].issued : d \in Callers}) \ {NoRefresh}

\* POST /refresh arrives with a refresh token the API handed out:
\* refreshTokens -> verifyRefreshToken: jwt.verify passes, the GET of the
\* stored token is sent
RefreshRequest(c) ==
  /\ CanSend(c)
  /\ \E token \in HandedOut :
       /\ req' = [req EXCEPT ![c] =
                    [IdleReq EXCEPT !.endpoint = "refresh", !.refresh = token,
                                    !.pc = "getStored"]]
       /\ redisQueue' = Append(redisQueue, GetStoredRefreshToken(token.userId, c))
  /\ sent' = sent + 1
  /\ UNCHANGED <<serviceVars, call, users, redis>>

\* the tokens jwt.sign can return for the holder of token: the payload and
\* the second of signing determine the token, so a token signed in the second
\* of the old one is the old one
Signed(token) ==
  {[userId |-> token.userId, serial |-> token.serial],
   [userId |-> token.userId, serial |-> token.serial + 1]}

\* the GET returns: no stored token or another one: null, 401; else
\* generateTokens signs new tokens and sends the SET of the new refresh token
\* without awaiting it, then revokeRefreshToken sends the DEL of the user's
\* key and is awaited
RefreshStored(c) ==
  /\ Replied(c, "getStored")
  /\ LET stored == redis.refresh_token[req[c].refresh.userId]
     IN IF stored = NoRefresh \/ stored # req[c].refresh
        THEN /\ req' = Answer(c, "401")
             /\ redisQueue' = Tail(redisQueue)
        ELSE \E token \in Signed(req[c].refresh) :
               /\ req' = [req EXCEPT ![c] = [@ EXCEPT !.pc = "rotate", !.issued = token]]
               /\ redisQueue' = Tail(redisQueue) \o
                                  <<StoreRefreshToken(token),
                                    RevokeRefreshToken(token.userId, c)>>
  /\ UNCHANGED <<serviceVars, call, users, redis, sent>>

\* the DEL returns: refreshTokens returns the new tokens, the response is 200
RefreshRotated(c) ==
  /\ Replied(c, "rotate")
  /\ redis' = Exec(Head(redisQueue), redis)
  /\ redisQueue' = Tail(redisQueue)
  /\ req' = Answer(c, "200")
  /\ UNCHANGED <<serviceVars, call, users, sent>>

\* Redis executes a command nothing awaits (the SET of storeRefreshToken)
StoreCompleted ==
  /\ ~crashed
  /\ redisQueue # <<>>
  /\ Head(redisQueue).waiter = 0
  /\ redis' = Exec(Head(redisQueue), redis)
  /\ redisQueue' = Tail(redisQueue)
  /\ UNCHANGED <<serviceVars, call, users, req, sent>>

\* the requests of the clients to the authentication endpoints and to the
\* trigger endpoint behind its middleware
AuthNext ==
  \/ \E c \in Callers :
       \/ AuthRequest(c)
       \/ AuthLookupFails(c)
       \/ AuthLookup(c)
       \/ TriggerHandle(c)
       \/ Finish(c)
       \/ LogoutAccessRevoked(c)
       \/ LogoutRefreshRevoked(c)
       \/ RegisterRequest(c)
       \/ RegisterLookup(c)
       \/ RegisterInsert(c)
       \/ RefreshRequest(c)
       \/ RefreshStored(c)
       \/ RefreshRotated(c)
  \/ StoreCompleted

AuthSpec == Init /\ [][AuthNext]_vars

\* ---------------------------------------------------------------- properties
\* caller t creates a startProcessing() promise in this step
Issues(t) == call[t].pc \in {"idle", "import"} /\ call'[t].settled # "none"

\* a row whose price field is a non-negative number
ValidRow(row) == ~ParseFloat(row.new_price).nan /\ ParseFloat(row.new_price).val >= 0
AllValid(rows) == \A i \in DOMAIN rows : ValidRow(rows[i])

\* the updatePrice calls that apply the rows, in file order
ExpectedCalls(rows) == [i \in DOMAIN rows |-> ToUpdate(rows[i])]

\* the listing has arrived and none of its keys ends in .csv (or it is empty)
NoCsvListed ==
  /\ run.listing # <<>>
  /\ \A i \in DOMAIN run.listing[1] : run.listing[1][i].Key.ext # ".csv"

\* C1: a startProcessing() call issued while the run of an earlier call has
\* not settled takes the return of the guard in the same step: it performs no
\* fetch, parse or apply (the run record is untouched, the call never started
\* a run) and the run in flight stays the only one.
C1_SecondCallDoesNothing ==
  [][\A t \in Callers :
       (Issues(t) /\ Runners # {}) =>
         /\ call'[t].pc = "done"
         /\ ~call'[t].startedRun
         /\ run' = run
         /\ Runners' = Runners
         /\ Cardinality(Runners') = 1]_vars

C1_Witness ==
  \E t \in Callers : \E u \in Callers \ {t} :
    /\ Running(t)
    /\ call[u].pc = "done" /\ call[u].kind = "direct"
    /\ call[u].settled = "resolved" /\ ~call[u].startedRun

\* C2: in every reachable state at most one caller is inside a run, whatever
\* the interleaving of cron ticks, trigger requests and direct calls.
C2_AtMostOneRun == Cardinality(Runners) <= 1

C2_Witness ==
  \E t \in Callers : \E u \in Callers \ {t} :
    /\ Running(t) /\ call[t].kind = "cron" /\ call[t].pc = "stream"
    /\ call[u].kind = "trigger" /\ call[u].pc = "import"

\* C3: the step in which a startProcessing() call that started a run settles,
\* after a success or after a failure, leaves both guard fields false:
\* isCurrentlyProcessing() returns false and the guard of the next call passes.
C3_GuardReleased ==
  [][\A t \in Callers :
       (Running(t) /\ ~Running(t)') =>
         /\ run'.promise = "resolved"
         /\ ~isProcessing'
         /\ ~processingLock']_vars

C3_Witness ==
  /\ run.promise = "resolved" /\ run.outcome.s3 = "error"
  /\ ~isCurrentlyProcessing /\ ~AlreadyRunning
  /\ "error.message" \in run.log

\* C4: a run whose remote step failed has still processed the local fallback
\* file when it ends, and the failure was logged.
C4_FallbackAfterRemoteFailure ==
  (run.promise = "resolved" /\ run.outcome.s3 = "error") =>
    /\ "Failed to process S3 CSV" \in run.log
    /\ run.outcome.local # "none"

\* C5: when the bucket is not configured, or the listing is empty or has no
\* key ending in .csv, the remote step has returned as "no data" without
\* opening a stream: no error is logged or raised, no remote row is read or
\* applied; and a run whose remote step ended so has gone on to the local
\* fallback file when it ends.
C5_NoRemoteDataIsNotAnError ==
  /\ \A t \in Callers :
       (Running(t) /\ run.src = "s3" /\ (~bucketName \/ NoCsvListed)) =>
         /\ call[t].pc = "ret"
         /\ run.outcome.s3 = (IF bucketName THEN "nodata" ELSE "skipped")
         /\ "Failed to process S3 CSV" \notin run.log
         /\ run.rows.s3 = <<>> /\ run.handed.s3 = <<>> /\ run.applied = <<>>
  /\ (run.promise = "resolved" /\ run.outcome.s3 \in {"skipped", "nodata"}) =>
       /\ run.outcome.local # "none"
       /\ "Failed to process S3 CSV" \notin run.log

C5_Witness ==
  /\ run.promise = "resolved" /\ run.outcome.s3 = "nodata" /\ run.outcome.local = "ok"
  /\ Len(run.rows.local) > 0

\* C6: a run with no remote data and a local file of N valid rows has made N
\* updatePrice calls, one per record.
C6_FallbackAppliesEveryRow ==
  (/\ run.promise = "resolved"
   /\ run.outcome.s3 \in {"skipped", "nodata"}
   /\ run.outcome.local = "ok"
   /\ AllValid(run.rows.local)) =>
    run.applied = ExpectedCalls(run.rows.local)

\* C7: a run with M valid remote rows and N valid local rows has made M + N
\* updatePrice calls, the remote ones first.
C7_BothSourcesApplied ==
  (/\ run.promise = "resolved"
   /\ run.outcome.s3 = "ok" /\ run.outcome.local = "ok"
   /\ AllValid(run.rows.s3) /\ AllValid(run.rows.local)) =>
    /\ Len(run.applied) = Len(run.rows.s3) + Len(run.rows.local)
    /\ run.applied = ExpectedCalls(run.rows.s3) \o ExpectedCalls(run.rows.local)

\* C8: a file with a row whose price is not a valid non-negative number is
\* never processed successfully, and none of its records reaches the apply.
C8_MalformedPriceFailsFile ==
  \A src \in Sources :
    ~AllValid(run.rows[src]) =>
      /\ run.outcome[src] # "ok"
      /\ run.handed[src] = <<>>

\* C9: once a batch has been handed to the apply step, every record after the
\* first has its updatePrice call, whatever became of the records before it.
C9_BatchAppliedIndependently ==
  \A t \in Callers :
    call[t].pc = "apply" =>
      \A j \in DOMAIN run.handed[run.src] :
        j > 1 => \E k \in DOMAIN run.applied : run.applied[k] = run.handed[run.src][j]

\* C10: a startProcessing() call made while the lock is held changes neither
\* guard field nor the reported status nor the run in flight nor any other
\* caller, and its promise resolves.
C10_CallWhileActiveIsNoop ==
  [][\A t \in Callers :
       (Issues(t) /\ processingLock) =>
         /\ processingLock' = processingLock
         /\ isProcessing' = isProcessing
         /\ getProcessingStatus' = getProcessingStatus
         /\ run' = run
         /\ \A u \in Callers \ {t} : call'[u] = call[u]
         /\ call'[t].settled = "resolved"
         /\ ~call'[t].startedRun]_vars

C10_Witness ==
  \E t \in Callers : \E u \in Callers \ {t} :
    /\ Running(t) /\ call[t].pc = "apply"
    /\ isProcessing /\ processingLock
    /\ getProcessingStatus = [isProcessing |-> TRUE, queueLength |-> 0]
    /\ call[u].pc = "done" /\ call[u].settled = "resolved" /\ ~call[u].startedRun

\* caller t's cron callback fires in this step
Ticks(t) == call[t].pc = "idle" /\ call'[t].kind = "cron"

\* caller t's trigger handler runs past its import in this step
Handles(t) == call[t].kind = "trigger" /\ call[t].pc = "import" /\ call'[t].pc # "import"

\* C11: a tick calls startProcessing() exactly when isCurrentlyProcessing() is
\* false at the tick; a tick during a run creates no promise, leaves the
\* service, the run and the other callers alone, is over at once, and the
\* skipped tick never becomes a run later.
C11_TickChecksThenSkips ==
  [][\A t \in Callers :
       /\ (Ticks(t) /\ ~isCurrentlyProcessing) => call'[t].settled # "none"
       /\ (Ticks(t) /\ isCurrentlyProcessing) =>
            /\ call'[t].pc = "done" /\ call'[t].settled = "none"
            /\ UNCHANGED <<processingLock, isProcessing, run>>
            /\ \A u \in Callers \ {t} : call'[u] = call[u]
       /\ (call[t].kind = "cron" /\ call[t].pc = "done") => ~Running(t)']_vars

C11_Witness ==
  \E t \in Callers : \E u \in Callers \ {t} :
    /\ Running(u)
    /\ call[t].kind = "cron" /\ call[t].pc = "done" /\ call[t].settled = "none"

\* C12: a trigger request handled while a run is active is answered 409 (no
\* other status), creates no startProcessing() promise and leaves the flags,
\* the run in flight and the other callers as they were.
C12_TriggerConflict ==
  [][\A t \in Callers :
       (Handles(t) /\ isCurrentlyProcessing) =>
         /\ call'[t].response = "409"
         /\ call'[t].settled = "none" /\ ~call'[t].startedRun
         /\ UNCHANGED <<processingLock, isProcessing, run>>
         /\ \A u \in Callers \ {t} : call'[u] = call[u]]_vars

C12_Witness ==
  \E t \in Callers : \E u \in Callers \ {t} :
    /\ Running(u) /\ call[u].pc = "stream"
    /\ call[t].kind = "trigger" /\ call[t].pc = "done" /\ call[t].response = "409"

\* C13: a trigger request handled while no run is active starts a run and, in
\* the same step, sends its acknowledgement: the response is out while the
\* run it started is active and its promise pending.
C13_TriggerAcknowledgesEarly ==
  [][\A t \in Callers :
       (Handles(t) /\ ~isCurrentlyProcessing) =>
         /\ call'[t].response = "200"
         /\ call'[t].startedRun /\ Running(t)'
         /\ isProcessing' /\ run'.promise = "pending"]_vars

C13_Witness ==
  \E t \in Callers :
    /\ call[t].kind = "trigger" /\ call[t].response = "200"
    /\ Running(t) /\ call[t].pc = "list"
    /\ isCurrentlyProcessing /\ run.promise = "pending"

\* C14: while the promise of the last startProcessing() call that started a
\* run is pending, the status reports isProcessing true; once it has resolved
\* (and until another run starts) the status reports false.
C14_StatusFollowsRun ==
  /\ run.promise = "pending" => getProcessingStatus.isProcessing = TRUE
  /\ run.promise = "resolved" => getProcessingStatus.isProcessing = FALSE

C14_Witness ==
  \E t \in Callers :
    /\ call[t].kind = "direct" /\ call[t].pc = "list" /\ run.promise = "pending"
    /\ getProcessingStatus.isProcessing = TRUE

\* C15: every run that starts eventually ends, with its promise resolved and
\* both guard fields cleared.
C15_EveryRunEnds ==
  (run.promise = "pending") ~>
    (run.promise = "resolved" /\ ~processingLock /\ ~isProcessing)

\* C16: as long as the listing request of a run stays pending the run stays
\* active: no step clears the flags or settles the promise, the status keeps
\* reporting true, every tick of another caller is skipped and every trigger
\* handled is answered 409.
C16_StuckFetchHoldsGuard ==
  [][\A t \in Callers :
       (call[t].pc = "list" /\ call'[t].pc = "list") =>
         /\ processingLock' /\ isProcessing'
         /\ run'.promise = "pending"
         /\ getProcessingStatus'.isProcessing = TRUE
         /\ \A u \in Callers \ {t} :
              /\ Ticks(u) => (call'[u].pc = "done" /\ call'[u].settled = "none")
              /\ Handles(u) => call'[u].response = "409"]_vars

C16_Witness ==
  \E t \in Callers : \E u \in Callers \ {t} :
    /\ call[t].pc = "list" /\ isCurrentlyProcessing
    /\ call[u].kind = "trigger" /\ call[u].pc = "done" /\ call[u].response = "409"

\* C17: a run starts only in the step in which a caller issues
\* startProcessing() and finds the lock free, and every such call starts one:
\* a refused call never turns into a run, neither when the run in flight ends
\* nor later.
C17_DroppedNotDeferred ==
  [][\A t \in Callers :
       /\ (~Running(t) /\ Running(t)') => (Issues(t) /\ ~processingLock)
       /\ (Issues(t) /\ ~processingLock) => (Running(t)' /\ call'[t].startedRun)
       /\ (Issues(t) /\ processingLock) => (~Running(t)' /\ ~call'[t].startedRun)
       /\ (Running(t) /\ ~Running(t)') => Runners' = {}]_vars

C17_Witness ==
  \E t \in Callers :
    /\ call[t].pc = "done" /\ call[t].settled = "resolved" /\ ~call[t].startedRun
    /\ run.promise = "resolved" /\ ~processingLock /\ Runners = {}

\* the listing of the remote step, while it is in the run record
Listed == run.listing[1]

\* the objects of the listing whose key ends in .csv
CsvIndexes == {i \in DOMAIN Listed : Listed[i].Key.ext = ".csv"}

\* C18: the object the remote step streams is one of the listed objects, its
\* key ends in .csv and no listed .csv object has a greater modification
\* time; an object without the extension is not selected, however new.
C18_LatestCsvSelected ==
  \A t \in Callers :
    (call[t].pc = "stream" /\ run.src = "s3" /\ run.listing # <<>>) =>
      /\ run.latestKey.ext = ".csv"
      /\ \E i \in CsvIndexes :
           /\ Listed[i].Key = run.latestKey
           /\ \A j \in CsvIndexes : GetTime(Listed[j]) <= GetTime(Listed[i])

C18_Witness ==
  \E t \in Callers :
    /\ call[t].pc = "stream" /\ run.src = "s3" /\ run.listing # <<>>
    /\ run.latestKey.ext = ".csv"
    /\ \E i \in DOMAIN Listed :
         /\ Listed[i].Key.ext # ".csv"
         /\ \A j \in CsvIndexes : GetTime(Listed[j]) < GetTime(Listed[i])

\* C19: the selection is determined by the listing alone: among the .csv
\* objects that share the greatest modification time it is the one listed
\* first (S3 lists in key order), so the same objects give the same object
\* in every run.
C19_TieGoesToFirstListed ==
  \A t \in Callers :
    (call[t].pc = "stream" /\ run.src = "s3" /\ run.listing # <<>>) =>
      \E i \in CsvIndexes :
        /\ Listed[i].Key = run.latestKey
        /\ \A j \in CsvIndexes :
             \/ GetTime(Listed[j]) < GetTime(Listed[i])
             \/ (GetTime(Listed[j]) = GetTime(Listed[i]) /\ i <= j)

C19_Witness ==
  \E t \in Callers :
    /\ call[t].pc = "stream" /\ run.src = "s3" /\ run.listing # <<>>
    /\ \E i \in CsvIndexes : \E j \in CsvIndexes :
         /\ i < j
         /\ GetTime(Listed[i]) = GetTime(Listed[j])
         /\ Listed[i].LastModified # <<>>
         /\ Listed[i].Key = run.latestKey

\* caller t's status handler runs past its import in this step
Queries(t) == call[t].kind = "status" /\ call[t].pc = "import" /\ call'[t].pc # "import"

\* C20: a status query, also in the middle of a run, changes no field of the
\* service, nothing of the run and no other caller, and what it returns is
\* the active flag (and the queue length) as they are at the call; a tick or
\* a trigger that only calls isCurrentlyProcessing() and finds it true
\* changes nothing either.
C20_StatusIsReadOnly ==
  [][\A t \in Callers :
       /\ Queries(t) =>
            /\ UNCHANGED <<processingLock, isProcessing, processingQueue, run>>
            /\ \A u \in Callers \ {t} : call'[u] = call[u]
            /\ call'[t].reported =
                 <<[isProcessing |-> isProcessing, queueLength |-> Len(processingQueue)]>>
       /\ ((Ticks(t) \/ Handles(t)) /\ isCurrentlyProcessing) =>
            UNCHANGED <<processingLock, isProcessing, processingQueue, run>>]_vars

C20_Witness ==
  \E t \in Callers : \E u \in Callers \ {t} :
    /\ Running(u) /\ call[u].pc = "apply"
    /\ call[t].kind = "status" /\ call[t].pc = "done"
    /\ call[t].reported = <<[isProcessing |-> TRUE, queueLength |-> 0]>>

\* C24: the fallback step is entered only after the remote step has returned
\* without an error, which for a streamed object is after the apply of its
\* records; and what a file's step collects and hands to the apply is the
\* file's rows in file order.
C24_RemoteBeforeFallbackInFileOrder ==
  /\ (run.src = "local" \/ run.rows.local # <<>> \/ run.outcome.local # "none") =>
       /\ run.outcome.s3 \in {"skipped", "nodata", "ok"}
       /\ run.outcome.s3 = "ok" => run.handed.s3 = ExpectedCalls(run.rows.s3)
       /\ run.rows.s3 # <<>> => run.outcome.s3 = "ok"
  /\ \A t \in Callers :
       call[t].pc = "stream" => run.updates = ExpectedCalls(run.rows[run.src])
  /\ \A src \in Sources :
       run.handed[src] # <<>> => run.handed[src] = ExpectedCalls(run.rows[src])

C24_Witness ==
  \E t \in Callers :
    /\ call[t].pc = "apply" /\ run.src = "local" /\ run.outcome.s3 = "ok"
    /\ Len(run.handed.s3) >= 1 /\ Len(run.handed.local) >= 1
    /\ run.handed.s3 # run.handed.local

\* C25: a step taken while a file is being read never ends the process, and
\* when it ends the reading with a failure the failure is logged, the
\* file's step has failed and none of the file's records was handed on.
C25_StreamErrorSettlesAsFailure ==
  [][\A t \in Callers :
       call[t].pc = "stream" =>
         /\ ~crashed'
         /\ call'[t].pc = "ret" =>
              /\ run'.outcome[run.src] = "error"
              /\ run'.handed[run.src] = <<>>
              /\ (IF run.src = "s3" THEN "Failed to process S3 CSV"
                  ELSE "Failed to process local CSV") \in run'.log]_vars

\* C26: no startProcessing() promise is ever rejected, neither the promise
\* of a run nor the promise of a refused call; a run in which a step failed
\* has logged the error and its promise is resolved.
C26_PromiseNeverRejects ==
  /\ run.promise \in {"none", "pending", "resolved"}
  /\ \A t \in Callers : call[t].settled \in {"none", "pending", "resolved"}
  /\ (run.promise # "pending" /\ "error" \in {run.outcome.s3, run.outcome.local}) =>
       /\ run.promise = "resolved"
       /\ "error.message" \in run.log

C26_Witness ==
  /\ run.promise = "resolved" /\ run.outcome.s3 = "ok" /\ run.outcome.local = "error"
  /\ "error.message" \in run.log /\ "Failed to process local CSV" \in run.log

\* C27: a startProcessing() call made by a tick or by the trigger handler
\* (both call it in the step of their check) always starts a run: its promise
\* is pending, never resolved by the guard; and every 200 of the trigger is
\* sent by a request that started a run in that step.
C27_CheckedCallStartsRun ==
  [][\A t \in Callers :
       /\ ((Ticks(t) \/ Handles(t)) /\ call'[t].settled # "none") =>
            /\ call'[t].settled = "pending"
            /\ call'[t].startedRun /\ Running(t)'
            /\ Runners' = {t}
       /\ (Handles(t) /\ call'[t].response = "200") =>
            (call'[t].startedRun /\ Running(t)' /\ run'.promise = "pending")]_vars

C27_Witness ==
  \E t \in Callers : \E u \in Callers \ {t} :
    /\ call[t].kind = "trigger" /\ call[t].response = "200" /\ call[t].startedRun
    /\ Running(t) /\ call[t].pc = "stream"
    /\ call[u].kind = "cron" /\ call[u].pc = "done" /\ call[u].settled = "none"

\* C29: in every state between two steps (every suspension point, every idle
\* state) the two guard fields are equal: what isCurrentlyProcessing() and
\* getProcessingStatus() report is true exactly when the guard of
\* startProcessing() would refuse.
C29_GuardFieldsAgree ==
  /\ isProcessing = processingLock
  /\ isCurrentlyProcessing = AlreadyRunning
  /\ getProcessingStatus.isProcessing = AlreadyRunning

C29_Witness ==
  \E t \in Callers :
    /\ call[t].pc = "ret" /\ run.src = "local" /\ run.outcome.local = "error"
    /\ isProcessing /\ processingLock

\* C30: the queue is empty and the reported queueLength is 0 in every state,
\* also while a run is reading rows or applying records.
C30_QueueLengthZero ==
  /\ processingQueue = <<>>
  /\ getProcessingStatus.queueLength = 0

C30_Witness ==
  \E t \in Callers :
    /\ call[t].pc = "apply" /\ Len(run.handed[run.src]) >= 2
    /\ getProcessingStatus.queueLength = 0

\* the trigger request of client c has no valid access token, or the token's
\* user is missing or inactive, or the token's role is not admin
Unauthorized(c) ==
  LET token == req[c].token
      user == findById(token.userId)
  IN \/ token = NoToken
     \/ verifyAccessToken(token) = <<>>
     \/ user = <<>>
     \/ ~user[1].isActive
     \/ token.role # "admin"

\* C21 (as stated): a trigger request without a valid token, of a missing or
\* inactive user or of a role other than admin never reaches the handler and
\* starts no run, and its answer is 401 or 403.
C21_RejectedWith401Or403 ==
  \A c \in Callers :
    (req[c].endpoint = "trigger" /\ Unauthorized(c)) =>
      /\ req[c].pc \in {"findById", "done"}
      /\ call[c] = IdleCall
      /\ req[c].pc = "done" => req[c].response \in {"401", "403"}

\* C21 (amended): such a request never reaches the handler and starts no
\* run; its answer is 401 or 403, or 500 when the lookup of the user fails,
\* which can only happen to a request whose token verifyToken accepted.
C21_TriggerBehindAdminCheck ==
  \A c \in Callers :
    (req[c].endpoint = "trigger" /\ Unauthorized(c)) =>
      /\ req[c].pc \in {"findById", "done"}
      /\ call[c] = IdleCall
      /\ req[c].pc = "done" => req[c].response \in {"401", "403", "500"}
      /\ req[c].response = "500" => verifyAccessToken(req[c].token) # <<>>

C21_Witness ==
  \E c \in Callers : \E d \in Callers \ {c} :
    /\ req[c].endpoint = "trigger" /\ req[c].pc = "done" /\ req[c].response = "403"
    /\ req[c].token.role = "customer" /\ call[c] = IdleCall
    /\ req[d].endpoint = "trigger" /\ req[d].pc = "handler" /\ call[d].startedRun

\* C22: a request that presents an access token whose blacklist entry exists
\* when it arrives is rejected by authenticateToken: it reaches no handler,
\* and its answer is 401 (or the 500 of a failed user lookup).
C22_RevokedTokenRejected ==
  \A c \in Callers :
    req[c].revoked =>
      /\ req[c].pc \in {"findById", "done"}
      /\ req[c].pc = "done" => req[c].response \in {"401", "500"}

\* C23: a register request that is answered while a row has its email is
\* answered 409, adds no row and issues no token; and no two rows ever have
\* the same email.
C23_DuplicateEmailConflicts ==
  [][/\ \A c \in Callers :
          (/\ req[c].endpoint = "register"
           /\ req[c].pc \in {"findByEmail", "insert"}
           /\ req'[c].pc = "done"
           /\ findByEmail(req[c].email) # <<>>) =>
            /\ req'[c].response = "409"
            /\ users' = users
            /\ req'[c].issued = NoRefresh
            /\ redisQueue' = redisQueue
     /\ \A i \in DOMAIN users' : \A j \in DOMAIN users' :
          users'[i].email = users'[j].email => i = j]_vars

\* C28: in the step in which refreshTokens returns (the DEL it awaited has
\* been executed, and before it the SET it did not await), the refresh token
\* it returns is the one stored for the user.
C28_ReturnedRefreshTokenIsStored ==
  [][\A c \in Callers :
       (req[c].pc = "rotate" /\ req'[c].pc = "done") =>
         /\ req'[c].response = "200"
         /\ redis'.refresh_token[req'[c].issued.userId] = req'[c].issued]_vars

====
